---- MODULE Spec2Model ----
(***************************************************************************)
(* Model of src/mpr_visualization.py: the MPRApp controller of the MPR     *)
(* viewer.  One action per Tk callback (load button, the three sliders,    *)
(* the Left/Right key bindings, the two option menus, the three capture    *)
(* buttons).  Tk runs the callbacks one at a time on the event loop, so    *)
(* each action is a whole callback.                                        *)
(*                                                                         *)
(* Library behaviour the model relies on (not code of this repository):    *)
(*  - indexing a SimpleITK image with an index outside the axis, or        *)
(*    indexing None, raises; anything else yields the slice;               *)
(*  - a Tk Scale only reports values inside [from, to], and keeps its own  *)
(*    value inside that range when `to` is reconfigured;                   *)
(*  - PIL and the canvas calls in capture_snapshot succeed.                *)
(***************************************************************************)
EXTENDS Integers, Sequences, FiniteSets, TLC

\* ---------------------------------------------------------------- bounds
\* Number of readable DICOM directories the user can pick.
NumVolumes == 2
\* Number of UI events explored in one run of the application.
MaxEvents == 4

\* ------------------------------------------------------ program constants
Planes == <<"axial", "coronal", "sagittal">>
PlaneSet == {Planes[i] : i \in 1..Len(Planes)}
ColorMaps == {"gray", "jet", "hot"}
Filters == {"None", "Gaussian"}
Directions == {-1, 1}
\* Python's None, and a canvas nothing has been drawn on.
None == [none |-> TRUE]
Blank == [blank |-> TRUE]

\* ------------------------------------------------------------ environment
\* The directories the folder picker can return.  "" is a cancelled dialog,
\* "empty" holds no DICOM file (or does not exist), "corrupt" holds a series
\* whose reader.Execute() raises, and "series" k is readable.
Dir(kind, id) == [kind |-> kind, id |-> id]
GoodDirs == {Dir("series", k) : k \in 1..NumVolumes}
BadDirs == {Dir("empty", 0), Dir("corrupt", 0)}
Cancelled == Dir("", 0)
Directories == GoodDirs \cup BadDirs \cup {Cancelled}

\* image.GetSize() of the series in readable directory d, as (sx, sy, sz).
\* The three extents differ so that an axis mix-up is visible, and volume 1
\* has a single sagittal slice.
GetSize(d) == <<d.id, d.id + 1, d.id + 2>>

\* The volume reader.Execute() returns for readable directory d.
Image(d) == [dir |-> d, size |-> GetSize(d)]

VARIABLES
  image,            \* self.image: None or a loaded volume
  current_indices,  \* self.current_indices
  max_indices,      \* self.max_indices
  color_map_var,    \* self.color_map_var
  filter_var,       \* self.filter_var
  scroll,           \* the three tk.Scale widgets: [from_, to, value]
  canvas,           \* what each of the three main views shows
  snapshot_canvas,  \* what each of the three snapshot canvases shows
  size,             \* the last value of `size` in load_dicom, <<>> before
  event,            \* the callback the event loop dispatched last
  log,              \* library calls and dialogs of that callback, in order
  escaped,          \* whether that callback ended by an exception
  run,              \* history: the current run of equal arrow keys
  events            \* number of callbacks dispatched so far

vars == <<image, current_indices, max_indices, color_map_var, filter_var,
          scroll, canvas, snapshot_canvas, size, event, log, escaped, run,
          events>>

\* ---------------------------------------------------------------- helpers
Call(op, arg, ok) == [kind |-> "call", op |-> op, arg |-> arg, ok |-> ok]
Dialog(fn, title) == [kind |-> "dialog", fn |-> fn, title |-> title]
Event(name, arg) == [name |-> name, arg |-> arg]

\* What a function hands back: its return value, the calls and dialogs it
\* made, and whether it ended by raising instead of returning.
Returns(value, l) == [value |-> value, log |-> l, raised |-> FALSE]
Raises(l) == [value |-> None, log |-> l, raised |-> TRUE]

\* The axis of image.GetSize() that a plane indexes (1-based in TLA+).
Axis(plane) ==
  CASE plane = "axial" -> 3
    [] plane = "coronal" -> 2
    [] plane = "sagittal" -> 1

\* def load_dicom_series(directory): the whole body is inside try/except
\* Exception, so a failure becomes a dialog and a None result.
load_dicom_series(directory) ==
  LET arg == [directory |-> directory] IN
  IF directory \in GoodDirs
  THEN Returns(Image(directory), <<Call("load_dicom_series", arg, TRUE)>>)
  ELSE Returns(None, <<Call("load_dicom_series", arg, FALSE),
                       Dialog("showerror", "Error")>>)

\* Mutant of extract_slice: the indexing is not inside try/except, so a
\* failure leaves the function as an exception and no dialog is shown.
extract_slice_uncaught(img, plane, index) ==
  LET arg == [plane |-> plane, index |-> index] IN
  IF img # None /\ plane \in PlaneSet
     /\ index \in 0..(img.size[Axis(plane)] - 1)
  THEN Returns([image |-> img, plane |-> plane, index |-> index,
                filter |-> "None", color_map |-> "raw"],
               <<Call("extract_slice", arg, TRUE)>>)
  ELSE Raises(<<Call("extract_slice", arg, FALSE)>>)

\* def extract_slice(image, plane, index): likewise inside try/except.
extract_slice(img, plane, index) ==
  LET arg == [plane |-> plane, index |-> index] IN
  IF img # None /\ plane \in PlaneSet
     /\ index \in 0..(img.size[Axis(plane)] - 1)
  THEN Returns([image |-> img, plane |-> plane, index |-> index,
                filter |-> "None", color_map |-> "raw"],
               <<Call("extract_slice", arg, TRUE)>>)
  ELSE Returns(None, <<Call("extract_slice", arg, FALSE),
                       Dialog("showerror", "Error")>>)

\* def apply_color_map(image, color_map)
apply_color_map(arr, color_map) == [arr EXCEPT !.color_map = color_map]

\* Mutant of apply_filter: the filter type is never recognised.
apply_filter_ignored(arr, filter_type) == arr

\* def apply_filter(image, filter_type)
apply_filter(arr, filter_type) ==
  IF filter_type = "Gaussian" THEN [arr EXCEPT !.filter = "Gaussian"] ELSE arr

\* ax.imshow(slice_image, cmap=color_map): an array that is already RGB is
\* drawn as it is, a scalar array is drawn through the colormap.
imshow(arr, color_map) ==
  IF arr.color_map = "raw" THEN [arr EXCEPT !.color_map = color_map] ELSE arr

\* Mutant of display_slice: the selected filter is applied to the main views
\* as well.
display_slice_filtered(cv, img, plane, index, color_map) ==
  LET r == extract_slice(img, plane, index) IN
  IF r.raised THEN Raises(r.log)
  ELSE IF r.value = None THEN Returns(cv, r.log)
  ELSE LET filtered == apply_filter(r.value, filter_var)
           mapped == IF color_map # "gray"
                     THEN apply_color_map(filtered, color_map)
                     ELSE filtered
       IN Returns(imshow(mapped, color_map), r.log)

\* def display_slice(canvas, image, plane, index, color_map): `value` is the
\* new content of the canvas.
display_slice(cv, img, plane, index, color_map) ==
  LET r == extract_slice(img, plane, index) IN
  IF r.raised THEN Raises(r.log)
  ELSE IF r.value = None THEN Returns(cv, r.log)
  ELSE LET mapped == IF color_map # "gray"
                     THEN apply_color_map(r.value, color_map)
                     ELSE r.value
       IN Returns(imshow(mapped, color_map), r.log)

\* The loop of update_all_views from the i-th plane on; an exception ends it.
RECURSIVE views_from(_, _, _, _, _)
views_from(i, cvs, img, cur, color_map) ==
  IF i > Len(Planes) THEN Returns(cvs, <<>>)
  ELSE LET p == Planes[i]
           d == display_slice(cvs[p], img, p, cur[p], color_map)
       IN IF d.raised
          THEN [value |-> cvs, log |-> d.log, raised |-> TRUE]
          ELSE LET rest == views_from(i + 1, [cvs EXCEPT ![p] = d.value],
                                      img, cur, color_map)
               IN [rest EXCEPT !.log = d.log \o rest.log]

\* def update_all_views(self): `value` is the three canvases.
update_all_views(cvs, img, cur, color_map) ==
  views_from(1, cvs, img, cur, color_map)

\* ------------------------------------------------------------------- Init
\* def __init__ / create_widgets
Init ==
  /\ image = None
  /\ current_indices = [p \in PlaneSet |-> 0]
  /\ max_indices = [p \in PlaneSet |-> 0]
  /\ color_map_var = "gray"
  /\ filter_var = "None"
  /\ scroll = [p \in PlaneSet |-> [from_ |-> 0, to |-> 0, value |-> 0]]
  /\ canvas = [p \in PlaneSet |-> Blank]
  /\ snapshot_canvas = [p \in PlaneSet |-> Blank]
  /\ size = <<>>
  /\ event = Event("__init__", <<>>)
  /\ log = <<>>
  /\ escaped = FALSE
  /\ run = [dir |-> 0, len |-> 0, start |-> [p \in PlaneSet |-> 0]]
  /\ events = 0

\* root.mainloop() dispatching one callback.  Any callback but an arrow key
\* ends the current run of arrow keys.
Dispatch(name, arg) ==
  /\ events < MaxEvents
  /\ events' = events + 1
  /\ event' = Event(name, arg)
NoRun(cur) == [dir |-> 0, len |-> 0, start |-> cur]

\* ---------------------------------------------------------------- actions
\* Mutant of config_to: the slider is never told the new range.
config_to_stale(s, to) == s

\* scale.config(to=...): Tk keeps the scale's value inside the new range.
config_to(s, to) ==
  [s EXCEPT !.to = to, !.value = IF s.value > to THEN to ELSE s.value]

\* Mutant of max_index: the extent itself is taken as the largest index.
max_index_off_by_one(sz, plane) == sz[Axis(plane)]

\* max_indices of a plane for a volume of the given size.
max_index(sz, plane) == sz[Axis(plane)] - 1

\* The index load_dicom starts a plane at.
middle_index(mx) == mx \div 2

\* def load_dicom(self)
load_dicom(dicom_dir) ==
  /\ Dispatch("load_dicom", <<dicom_dir>>)
  /\ IF dicom_dir # Cancelled
     THEN LET r == load_dicom_series(dicom_dir) IN
          IF r.raised
          THEN /\ log' = r.log
               /\ escaped' = TRUE
               /\ UNCHANGED <<image, size, max_indices, current_indices,
                              scroll, canvas>>
          ELSE
          /\ image' = r.value
          /\ IF r.value # None
             THEN LET sz == r.value.size
                      mx == [p \in PlaneSet |-> max_index(sz, p)]
                      cur == [p \in PlaneSet |-> middle_index(mx[p])]
                      v == update_all_views(canvas, r.value, cur, color_map_var)
                  IN /\ size' = sz
                     /\ max_indices' = mx
                     /\ current_indices' = cur
                     /\ scroll' = [p \in PlaneSet |-> config_to(scroll[p], mx[p])]
                     /\ canvas' = v.value
                     /\ escaped' = v.raised
                     /\ log' = r.log \o v.log \o
                               (IF v.raised THEN <<>>
                                ELSE <<Dialog("showinfo", "Loaded")>>)
             ELSE /\ log' = r.log \o <<Dialog("showwarning", "Error")>>
                  /\ escaped' = FALSE
                  /\ UNCHANGED <<size, max_indices, current_indices, scroll,
                                 canvas>>
     ELSE /\ log' = <<Dialog("showwarning", "Error")>>
          /\ escaped' = FALSE
          /\ UNCHANGED <<image, size, max_indices, current_indices, scroll,
                         canvas>>
  /\ run' = NoRun(current_indices')
  /\ UNCHANGED <<color_map_var, filter_var, snapshot_canvas>>

\* def on_scroll(self, plane, index): the Scale of `plane` reports `index`.
on_scroll(plane, index) ==
  /\ Dispatch("on_scroll", <<plane, index>>)
  /\ index \in scroll[plane].from_..scroll[plane].to
  /\ scroll' = [scroll EXCEPT ![plane].value = index]
  /\ current_indices' = [current_indices EXCEPT ![plane] = index]
  /\ LET v == update_all_views(canvas, image, current_indices', color_map_var)
     IN canvas' = v.value /\ log' = v.log /\ escaped' = v.raised
  /\ run' = NoRun(current_indices')
  /\ UNCHANGED <<image, max_indices, color_map_var, filter_var,
                 snapshot_canvas, size>>

\* Mutants of step_index: the upper clamp is missing; the lower clamp is
\* missing; the index wraps to 0 beyond the maximum.
step_index_no_ceiling(cur, mx, direction) ==
  LET moved == cur + direction IN
  IF moved < 0 THEN 0 ELSE moved

step_index_no_floor(cur, mx, direction) ==
  LET moved == cur + direction IN
  IF moved > mx THEN mx ELSE moved

step_index_wrapping(cur, mx, direction) ==
  LET moved == cur + direction IN
  IF moved < 0 THEN 0
  ELSE IF moved > mx THEN 0
  ELSE moved

\* The loop body of change_slice for one plane.
step_index(cur, mx, direction) ==
  LET moved == cur + direction IN
  IF moved < 0 THEN 0
  ELSE IF moved > mx THEN mx
  ELSE moved

\* def change_slice(self, direction)
change_slice(direction) ==
  /\ Dispatch("change_slice", <<direction>>)
  /\ current_indices' =
       [p \in PlaneSet |-> step_index(current_indices[p], max_indices[p], direction)]
  /\ LET v == update_all_views(canvas, image, current_indices', color_map_var)
     IN canvas' = v.value /\ log' = v.log /\ escaped' = v.raised
  /\ run' = IF run.dir = direction
            THEN [run EXCEPT !.len = run.len + 1]
            ELSE [dir |-> direction, len |-> 1, start |-> current_indices]
  /\ UNCHANGED <<image, max_indices, color_map_var, filter_var, scroll,
                 snapshot_canvas, size>>

\* def update_color_map(self, *args), called by the OptionMenu after it has
\* set color_map_var to the chosen entry.
update_color_map(choice) ==
  /\ Dispatch("update_color_map", <<choice>>)
  /\ color_map_var' = choice
  /\ LET v == update_all_views(canvas, image, current_indices, choice)
     IN canvas' = v.value /\ log' = v.log /\ escaped' = v.raised
  /\ run' = NoRun(current_indices)
  /\ UNCHANGED <<image, current_indices, max_indices, filter_var, scroll,
                 snapshot_canvas, size>>

\* def update_filter(self, *args), called by the OptionMenu after it has set
\* filter_var to the chosen entry.
update_filter(choice) ==
  /\ Dispatch("update_filter", <<choice>>)
  /\ filter_var' = choice
  /\ LET v == update_all_views(canvas, image, current_indices, color_map_var)
     IN canvas' = v.value /\ log' = v.log /\ escaped' = v.raised
  /\ run' = NoRun(current_indices)
  /\ UNCHANGED <<image, current_indices, max_indices, color_map_var, scroll,
                 snapshot_canvas, size>>

\* def capture_snapshot(self, plane)
capture_snapshot(plane) ==
  /\ Dispatch("capture_snapshot", <<plane>>)
  /\ LET r == extract_slice(image, plane, current_indices[plane]) IN
     /\ log' = r.log
     /\ escaped' = r.raised
     /\ IF ~r.raised /\ r.value # None
        THEN LET filtered == IF filter_var # "None"
                             THEN apply_filter(r.value, filter_var)
                             ELSE r.value
             IN snapshot_canvas' = [snapshot_canvas EXCEPT ![plane] = filtered]
        ELSE UNCHANGED snapshot_canvas
  /\ run' = NoRun(current_indices)
  /\ UNCHANGED <<image, current_indices, max_indices, color_map_var,
                 filter_var, scroll, canvas, size>>

\* The values a Scale can report: 0 up to the largest extent minus one.
ScaleValues == 0..(NumVolumes + 1)

LoadDicom == \E d \in Directories : load_dicom(d)
OnScroll == \E p \in PlaneSet : \E i \in ScaleValues : on_scroll(p, i)
ChangeSlice == \E d \in Directions : change_slice(d)
UpdateColorMap == \E c \in ColorMaps : update_color_map(c)
UpdateFilter == \E f \in Filters : update_filter(f)
CaptureSnapshot == \E p \in PlaneSet : capture_snapshot(p)

Next ==
  \/ LoadDicom
  \/ OnScroll
  \/ ChangeSlice
  \/ UpdateColorMap
  \/ UpdateFilter
  \/ CaptureSnapshot

Spec == Init /\ [][Next]_vars

\* ----------------------------------------------------------------- claims
Min(a, b) == IF a < b THEN a ELSE b
Max(a, b) == IF a > b THEN a ELSE b
Loaded == image # None

\* C1: in every reachable state, whatever events were handled, every plane's
\* current index lies in [0, max_indices of the plane].
C1_IndexWithinBounds ==
  \A p \in PlaneSet :
    0 <= current_indices[p] /\ current_indices[p] <= max_indices[p]

\* C1 witness: arrow keys have pushed every plane of a loaded volume to its
\* maximum, one press beyond the point where the last plane arrived.
C1_Witness ==
  /\ Loaded
  /\ run.dir = 1 /\ run.len >= 3
  /\ \A p \in PlaneSet : current_indices[p] = max_indices[p]
  /\ \E p \in PlaneSet : run.start[p] + run.len > max_indices[p]

\* C2: the slider ranges are [0, 0] before the first successful load; from a
\* successful load of a volume of size (sx, sy, sz) on, until the next one,
\* they are [0, sz-1] (axial), [0, sy-1] (coronal) and [0, sx-1] (sagittal),
\* and each upper bound equals max_indices of its plane.
C2_SliderBoundsMatchVolume ==
  /\ \A p \in PlaneSet : scroll[p].from_ = 0 /\ scroll[p].to = max_indices[p]
  /\ size = <<>> => \A p \in PlaneSet : scroll[p].to = 0
  /\ size # <<>> =>
       /\ scroll["axial"].to = size[3] - 1
       /\ scroll["coronal"].to = size[2] - 1
       /\ scroll["sagittal"].to = size[1] - 1
  /\ Loaded => size = image.size
  /\ (event.name = "load_dicom" /\ event.arg[1] \in GoodDirs) =>
       Loaded /\ size = GetSize(event.arg[1])

\* C2 witness: a second, smaller volume has just been loaded over a larger one
\* whose axial slice was captured, and the sliders follow the smaller one.
C2_Witness ==
  /\ event.name = "load_dicom" /\ Loaded
  /\ snapshot_canvas["axial"] # Blank
  /\ snapshot_canvas["axial"].image.size[3] > image.size[3]
  /\ scroll["axial"].to = image.size[3] - 1

\* The events of a step, read off the post-state.
Handled(name) == events' = events + 1 /\ event'.name = name

\* C3: one Left/Right key event with direction d replaces, in a single step,
\* every plane's index by min(max, max(0, index + d)), and leaves max_indices
\* and the loaded volume as they were.
C3_KeyStepsAllPlanes ==
  [][Handled("change_slice") =>
       /\ \A p \in PlaneSet :
            current_indices'[p] =
              Min(max_indices[p], Max(0, current_indices[p] + event'.arg[1]))
       /\ max_indices' = max_indices
       /\ image' = image]_vars

\* C3 witness: after one Right key the sagittal plane, already at its bound,
\* has stayed while the axial plane has moved.
C3_Witness ==
  /\ Loaded
  /\ event.name = "change_slice" /\ event.arg[1] = 1 /\ run.len = 1
  /\ run.start["sagittal"] = max_indices["sagittal"]
  /\ current_indices["sagittal"] = run.start["sagittal"]
  /\ current_indices["axial"] = run.start["axial"] + 1
  /\ current_indices["coronal"] = run.start["coronal"] + 1

\* The positions of the log that are library calls, and those that failed.
CallsAt(l) == {i \in 1..Len(l) : l[i].kind = "call"}
FailuresAt(l) == {i \in CallsAt(l) : ~l[i].ok}
IsErrorDialog(e) == e.kind = "dialog" /\ e.fn = "showerror"

\* C4: every failure of series loading or of slice extraction is caught where
\* it occurs and shown as a dialog: in the callback that met it the failed
\* call is directly followed by an error dialog, the callback returns
\* normally, and it does not make the failed call a second time.
C4_FailuresSurfaced ==
  /\ ~escaped
  /\ \A i \in FailuresAt(log) : i < Len(log) /\ IsErrorDialog(log[i + 1])
  /\ \A i \in FailuresAt(log) : \A j \in CallsAt(log) :
       (log[j].op = log[i].op /\ log[j].arg = log[i].arg) => j = i

\* C4 witness: a load has failed over a loaded volume, and the slider moved
\* next met three extraction failures, one per plane, each with its dialog.
C4_Witness ==
  /\ size # <<>> /\ ~Loaded
  /\ event.name = "on_scroll"
  /\ Cardinality(FailuresAt(log)) = 3
  /\ Len(log) = 6

\* C5: with a volume loaded, after k consecutive Right keys from indices i0
\* every plane is at min(i0 + k, max), so once k reaches the largest maximum
\* every plane is at its maximum and stays there; after k consecutive Left
\* keys every plane is at max(i0 - k, 0).
C5_RepeatedSteppingSaturates ==
  Loaded =>
    /\ run.dir = 1 =>
         /\ \A p \in PlaneSet :
              current_indices[p] = Min(run.start[p] + run.len, max_indices[p])
         /\ (\A p \in PlaneSet : run.len >= max_indices[p]) =>
              current_indices = max_indices
    /\ run.dir = -1 =>
         /\ \A p \in PlaneSet :
              current_indices[p] = Max(run.start[p] - run.len, 0)
         /\ (\A p \in PlaneSet : run.len >= max_indices[p]) =>
              \A p \in PlaneSet : current_indices[p] = 0

\* C5 witness: three Right keys in a row on a loaded volume, the last of them
\* pressed with every plane already at its maximum.
C5_Witness ==
  /\ Loaded
  /\ run.dir = 1 /\ run.len = 3
  /\ \A p \in PlaneSet : run.start[p] + run.len - 1 >= max_indices[p]
  /\ \E p \in PlaneSet : run.start[p] < max_indices[p]
  /\ current_indices = max_indices

\* What a main view shows of a loaded volume: a function of the volume, the
\* plane, the plane's index and the colormap.
MainView(img, plane, index, color_map) ==
  [image |-> img, plane |-> plane, index |-> index, filter |-> "None",
   color_map |-> color_map]

\* C6: the filter selection affects snapshots only.  While a volume is loaded
\* each main view is determined by (volume, plane, index, colormap); no main
\* view ever shows filtered pixels; and selecting a filter changes neither
\* the views nor image, current_indices, max_indices or any snapshot.
C6_FilterLeavesViews ==
  /\ [](Loaded => \A p \in PlaneSet :
          canvas[p] = MainView(image, p, current_indices[p], color_map_var))
  /\ [](\A p \in PlaneSet : canvas[p] # Blank => canvas[p].filter = "None")
  /\ [][Handled("update_filter") =>
          UNCHANGED <<canvas, image, current_indices, max_indices,
                      snapshot_canvas>>]_vars

\* C6 witness: Gaussian has just been selected while a volume is shown with
\* a colormap other than gray.
C6_Witness ==
  /\ Loaded
  /\ event.name = "update_filter" /\ filter_var = "Gaussian"
  /\ color_map_var # "gray"
  /\ \A p \in PlaneSet : canvas[p] # Blank

\* What capture_snapshot stores: the raw slice through the selected filter.
Snapshot(img, plane, index, filter_type) ==
  [image |-> img, plane |-> plane, index |-> index, filter |-> filter_type,
   color_map |-> "raw"]

\* C7: capture_snapshot(p) with a volume loaded replaces only p's snapshot,
\* by the slice at current_indices[p] through the filter selected then, and
\* leaves image, the indices and the main views alone; with no volume loaded
\* it shows an error dialog and keeps the snapshot; no other event changes a
\* snapshot.
C7_SnapshotsChangeOnCapture ==
  [][/\ (Handled("capture_snapshot") /\ Loaded) =>
          /\ snapshot_canvas' =
               [snapshot_canvas EXCEPT ![event'.arg[1]] =
                  Snapshot(image, event'.arg[1],
                           current_indices[event'.arg[1]], filter_var)]
          /\ UNCHANGED <<image, current_indices, max_indices, canvas>>
     /\ (Handled("capture_snapshot") /\ ~Loaded) =>
          /\ \E i \in 1..Len(log') : IsErrorDialog(log'[i])
          /\ UNCHANGED snapshot_canvas
     /\ ~Handled("capture_snapshot") => UNCHANGED snapshot_canvas]_vars

\* C7 witness: the coronal snapshot was taken through the Gaussian filter,
\* the other two snapshots are still empty, and a later event was handled.
C7_Witness ==
  /\ snapshot_canvas["coronal"] # Blank
  /\ snapshot_canvas["coronal"].filter = "Gaussian"
  /\ snapshot_canvas["axial"] = Blank /\ snapshot_canvas["sagittal"] = Blank
  /\ event.name = "on_scroll"

\* The extent of the loaded volume along the axis a plane steps through.
Extent(img, plane) ==
  IF plane = "axial" THEN img.size[3]
  ELSE IF plane = "coronal" THEN img.size[2]
  ELSE img.size[1]

\* C8 (as claimed): a load attempt that fails leaves image, current_indices,
\* max_indices and the slider bounds as they were.
C8_FailedLoadKeepsVolume ==
  [][(Handled("load_dicom") /\ event'.arg[1] \in BadDirs) =>
       UNCHANGED <<image, current_indices, max_indices, scroll>>]_vars

\* C9: while a volume is loaded no callback meets a slice-extraction failure:
\* every extract_slice call of the last callback succeeded with an index in
\* [0, extent - 1] of the loaded volume along the plane's axis (axial z,
\* coronal y, sagittal x), and so would a call for the current indices.
C9_NoExtractionFailureWhileLoaded ==
  Loaded =>
    /\ \A i \in CallsAt(log) :
         log[i].op = "extract_slice" =>
           /\ log[i].ok
           /\ log[i].arg.index \in 0..(Extent(image, log[i].arg.plane) - 1)
    /\ \A p \in PlaneSet : current_indices[p] \in 0..(Extent(image, p) - 1)

\* C9 witness: the axial slice at the top index of the larger volume was
\* captured, then the smaller volume was loaded and all three views drawn.
C9_Witness ==
  /\ event.name = "load_dicom" /\ Loaded
  /\ snapshot_canvas["axial"] # Blank
  /\ snapshot_canvas["axial"].index > Extent(image, "axial") - 1
  /\ Cardinality({i \in CallsAt(log) : log[i].op = "extract_slice" /\ log[i].ok}) = 3

\* C10 (as claimed): after a successful load every slider's position equals
\* the plane's current index.
C10_SliderInSync ==
  size # <<>> => \A p \in PlaneSet : scroll[p].value = current_indices[p]

====
